---- MODULE Spec2Model ----
(***************************************************************************)
(* IntelliQuery (src/app.py): a Streamlit script that indexes uploaded     *)
(* documents, audio and video in a FAISS vector store and answers          *)
(* questions by retrieval plus generation.                                  *)
(*                                                                         *)
(* One browser session is modelled in full: st.session_state, the widgets  *)
(* of the sidebar, the question box and the script run that Streamlit      *)
(* executes after every user event.  The vector_store_index folder is on   *)
(* disk and is shared with the other sessions of the same server, which    *)
(* appear here only through what their runs do to that folder.             *)
(*                                                                         *)
(* Text is a sequence of one-character strings.  None is <<>> and a        *)
(* present value v is <<v>>, so that None differs from the empty text.     *)
(***************************************************************************)
EXTENDS Naturals, Sequences, FiniteSets

(***************************************************************************)
(* Bounds of the model.                                                    *)
(***************************************************************************)
\* files held by a multi-file uploader
MaxFiles == 1
\* answered questions kept in conversation_history
MaxHistory == 2
\* characters of session content (a failing video upload appends for ever)
MaxContentLen == 3
\* get_late_chunked_text: documents per call, characters per document, chunk_size
MaxDocs == 1
MaxTextLen == 3
MaxChunkSize == 3

\* process_input expands a question of fewer words than this (src/app.py:497)
ShortQueryWords == 15

None == <<>>
Some(v) == <<v>>
Val(o) == o[1]

(***************************************************************************)
(* Python string operations used by the code.                              *)
(***************************************************************************)
SPACE == " "
NL == "\n"
\* a code point of U+10000..U+10FFFF (an emoji)
ASTRAL == "@"
COMMA == ","

IsSpace(c) == c \in {SPACE, NL}

RECURSIVE LStrip(_)
LStrip(s) == IF s # <<>> /\ IsSpace(Head(s)) THEN LStrip(Tail(s)) ELSE s

RECURSIVE RStrip(_)
RStrip(s) ==
    IF s # <<>> /\ IsSpace(s[Len(s)]) THEN RStrip(SubSeq(s, 1, Len(s) - 1)) ELSE s

\* str.strip()
Strip(s) == RStrip(LStrip(s))

\* len(s.split()): the number of maximal runs of non-whitespace characters
RECURSIVE NumWords(_)
NumWords(s) ==
    IF s = <<>> THEN 0
    ELSE NumWords(Tail(s))
         + (IF ~IsSpace(Head(s)) /\ (Len(s) = 1 \/ IsSpace(s[2])) THEN 1 ELSE 0)

\* s.split(","): the pieces between commas, empty pieces included
RECURSIVE SplitComma(_)
SplitComma(s) ==
    IF \A i \in 1..Len(s) : s[i] # COMMA THEN <<s>>
    ELSE LET i == CHOOSE k \in 1..Len(s) :
                      s[k] = COMMA /\ \A j \in 1..(k - 1) : s[j] # COMMA
         IN <<SubSeq(s, 1, i - 1)>> \o SplitComma(SubSeq(s, i + 1, Len(s)))

\* ", ".join(parts)
RECURSIVE JoinCommaSpace(_)
JoinCommaSpace(parts) ==
    IF parts = <<>> THEN <<>>
    ELSE IF Len(parts) = 1 THEN parts[1]
    ELSE parts[1] \o <<COMMA, SPACE>> \o JoinCommaSpace(Tail(parts))

RECURSIVE RemoveAstral(_)
RemoveAstral(s) ==
    IF s = <<>> THEN <<>>
    ELSE (IF Head(s) = ASTRAL THEN <<>> ELSE <<Head(s)>>) \o RemoveAstral(Tail(s))

\* clean_text: drop the astral code points, then strip
clean_text(text) == IF text = <<>> THEN <<>> ELSE Strip(RemoveAstral(text))

RECURSIVE MapClean(_)
MapClean(chunks) ==
    IF chunks = <<>> THEN <<>>
    ELSE <<clean_text(Head(chunks))>> \o MapClean(Tail(chunks))


(***************************************************************************)
(* Values.                                                                 *)
(***************************************************************************)
\* what the extractor or the transcriber obtains from an uploaded file
FileTexts == {<<>>, <<"a">>}

FileTypes == {"PDF", "PPT", "Excel", "Image", "Audio", "Video"}
DocTypes == {"PDF", "PPT", "Excel"}

RECURSIVE Words(_)
\* a question of n one-letter words
Words(n) == IF n = 0 THEN <<>>
            ELSE IF n = 1 THEN <<"w">>
            ELSE <<"w", SPACE>> \o Words(n - 1)

\* what the user may type in the question box
UserInputs ==
    {<<>>, <<SPACE>>, Words(ShortQueryWords - 1), <<SPACE>> \o Words(ShortQueryWords)}

\* raw generations of the related-terms service
RawTerms == {<<>>, <<SPACE, COMMA>>, <<"t">>, <<SPACE, "t", COMMA, COMMA, "t", SPACE>>}

\* the text another session of the server indexes
OtherText == <<"b", NL>>

NO_DOCS == "No relevant documents found. Please upload documents first or try a different question."
\* the text a language model returns (the chain's output_text, Gemini's response.text)
LLM_TEXT == "text"
IMAGE == "image"
\* load_excel_and_convert_to_csv's result when reading fails: "Error: " + str(e)
ExcelError == <<"E", "r", "r", "o", "r", ":", SPACE>>

\* the external step that fails in the sidebar part of a run
SideFails == {"none", "save_file", "extract_audio", "transcribe", "extract",
              "image_open", "embed", "save_local"}
\* the external step that fails in the chat part of a run
ChatFails == {"none", "related", "load", "search", "chain"}

\* the outcomes of the external steps of one run; the raw generation matters
\* only when the related-terms call returns
Envs == {e \in [side : SideFails, chat : ChatFails, raw : RawTerms] :
            e.chat = "related" => e.raw = <<>>}

(***************************************************************************)
(* State.                                                                  *)
(***************************************************************************)
VARIABLES
    \* st.session_state
    content, vector_store, documents_processed, audio_processed, video_processed,
    processing, current_question, user_input, conversation_history, uploaded_image,
    \* the sidebar's widgets: the selectbox and the uploader it shows
    file_type, uploader,
    \* the vector_store_index folder on disk
    vector_store_index,
    \* "run" when a script run is due (after a callback, after st.rerun()), else "idle"
    phase,
    \* what the last callback or script run was given, called and obtained
    log,
    \* one call of get_late_chunked_text: its arguments, its locals, its position
    \* ("off" outside a call, "for", "while", "done")
    retrieved_docs, chunk_size, chunk_overlap, doc_index, doc_text, start, chunked_docs, pc

sessionVars ==
    <<content, vector_store, documents_processed, audio_processed, video_processed,
      processing, current_question, user_input, conversation_history,
      uploaded_image, file_type, uploader, vector_store_index, phase, log>>

chunkVars ==
    <<retrieved_docs, chunk_size, chunk_overlap, doc_index, doc_text, start, chunked_docs, pc>>

vars == <<sessionVars, chunkVars>>

EmptyLog ==
    [\* the callback: the text of the question box
     submitted |-> None,
     \* process_audio / process_video: which one ("none": neither), its result,
     \* session content before the call, the file, the step that failed
     media |-> "none", media_ret |-> FALSE, media_before |-> <<>>,
     media_text |-> None, media_fail |-> "none",
     \* the documents block: "none", "skipped", "raised", "done", or
     \* "done_with_error" when an Excel file could not be read
     docs |-> "none",
     \* fetch_related_terms: called, whether Cohere failed, the result
     related_called |-> FALSE, related_failed |-> FALSE, related_terms |-> <<>>,
     \* retrieve_documents: its argument, whether the session held a store,
     \* load_vector_store called, FAISS.load_local called and failed, the
     \* store searched, the search failed, the result
     query |-> None, held |-> FALSE, load_called |-> FALSE, disk_read |-> FALSE,
     load_failed |-> FALSE, searched |-> None, search_failed |-> FALSE,
     retrieved |-> None,
     \* the question given to the chain and to Gemini, the response appended
     chain_question |-> None, gemini_question |-> None, response |-> None,
     answered |-> FALSE,
     \* an exception ended the run
     raised |-> FALSE]

\* the session state and the disk as one value, threaded through the code
State ==
    [content |-> content, vector_store |-> vector_store,
     documents_processed |-> documents_processed, audio_processed |-> audio_processed,
     video_processed |-> video_processed, processing |-> processing,
     current_question |-> current_question, user_input |-> user_input,
     conversation_history |-> conversation_history, uploaded_image |-> uploaded_image,
     index |-> vector_store_index, log |-> EmptyLog]

NoCall ==
    /\ retrieved_docs = <<>>
    /\ chunk_size = 1
    /\ chunk_overlap = 0
    /\ doc_index = 1
    /\ doc_text = <<>>
    /\ start = 0
    /\ chunked_docs = <<>>
    /\ pc = "off"

SessionInit ==
    /\ content = <<>>
    /\ vector_store = None
    /\ documents_processed = FALSE
    /\ audio_processed = FALSE
    /\ video_processed = FALSE
    /\ processing = FALSE
    /\ current_question = None
    /\ user_input = <<>>
    /\ conversation_history = <<>>
    /\ uploaded_image = None
    /\ file_type = "PDF"
    /\ uploader = <<>>
    /\ vector_store_index = None
    /\ phase = "run"
    /\ log = EmptyLog

Init == SessionInit /\ NoCall


(***************************************************************************)
(* File handling, chunking and the vector store (sections 3 to 5).         *)
(* An operator takes the state s and returns the state after the call; an  *)
(* operator whose result matters returns [s, ret, raised].  env names the  *)
(* external step that fails during this run.                               *)
(***************************************************************************)
\* shutil.rmtree of the index folder, when it exists
clear_old_index(s) == [s EXCEPT !.index = None]

\* RecursiveCharacterTextSplitter.split_text on a text shorter than chunk_size
\* (1000 here, 500 in process_audio; every text of the model is): the pieces
\* are merged back into one chunk, stripped, and dropped when empty.
split_text(text) == IF Strip(text) = <<>> THEN <<>> ELSE <<Strip(text)>>

get_text_chunks(text) == split_text(text)

\* FAISS.from_texts: embeds the texts; raises when the embedding service fails
\* or when there is no text (no embedding gives the index its dimension).
\* None stands for the exception.
FAISS_from_texts(texts, normalize_L2, env) ==
    IF env.side = "embed" \/ texts = <<>> THEN None
    ELSE Some([texts |-> texts, normalize_L2 |-> normalize_L2])

\* vector_store.save_local(path): the state after it; raises under "save_local"
save_local(s, store, env) ==
    IF env.side = "save_local" THEN [s |-> s, raised |-> TRUE]
    ELSE [s |-> [s EXCEPT !.index = Some(store)], raised |-> FALSE]

\* get_vector_store that swallows the exception of FAISS.from_texts
get_vector_store_m(s, text_chunks, env) ==
    LET cleaned_chunks == MapClean(text_chunks)
        built == FAISS_from_texts(cleaned_chunks, FALSE, env)
    IN IF built = None THEN [s |-> s, ret |-> None, raised |-> FALSE]
       ELSE LET saved == save_local(s, Val(built), env)
            IN [s |-> saved.s,
                ret |-> IF saved.raised THEN None ELSE built,
                raised |-> saved.raised]

get_vector_store(s, text_chunks, env) ==
    LET cleaned_chunks == MapClean(text_chunks)
        built == FAISS_from_texts(cleaned_chunks, FALSE, env)
    IN IF built = None THEN [s |-> s, ret |-> None, raised |-> TRUE]
       ELSE LET saved == save_local(s, Val(built), env)
            IN [s |-> saved.s,
                ret |-> IF saved.raised THEN None ELSE built,
                raised |-> saved.raised]

\* None when the folder does not exist; raises when FAISS.load_local fails
load_vector_store(s, env) ==
    IF s.index = None THEN [ret |-> None, raised |-> FALSE, read |-> FALSE]
    ELSE IF env.chat = "load" THEN [ret |-> None, raised |-> TRUE, read |-> TRUE]
    ELSE [ret |-> s.index, raised |-> FALSE, read |-> TRUE]

(***************************************************************************)
(* Audio and video (section 4).  An uploaded file is the text its          *)
(* transcription gives.                                                    *)
(***************************************************************************)
\* the path, or None for the exception of open()/write()
handle_file_upload(uploaded_file, env) ==
    IF env.side = "save_file" THEN None ELSE Some("path")

\* the .wav path, or None when ffmpeg fails
extract_audio(video_path, env) ==
    IF env.side = "extract_audio" THEN None ELSE Some("wav")

\* the transcription, or None when Whisper fails
transcribe_audio(file, env) ==
    IF env.side = "transcribe" THEN None ELSE Some(file)

\* process_video that indexes the transcription alone
process_video_m(s, uploaded_video, env) ==
    IF uploaded_video = None THEN [s |-> s, ret |-> FALSE]
    ELSE LET video_path == handle_file_upload(Val(uploaded_video), env)
             audio_path == extract_audio(video_path, env)
             transcription == transcribe_audio(Val(uploaded_video), env)
         IN IF video_path = None THEN [s |-> s, ret |-> FALSE]
            ELSE IF audio_path = None THEN [s |-> s, ret |-> FALSE]
            ELSE IF transcription = None \/ Val(transcription) = <<>>
                 THEN [s |-> s, ret |-> FALSE]
            ELSE LET s1 == [s EXCEPT !.content = @ \o Val(transcription) \o <<NL>>]
                     s2 == clear_old_index(s1)
                     text_chunks == get_text_chunks(Val(transcription))
                     r == get_vector_store(s2, text_chunks, env)
                 IN IF r.raised THEN [s |-> r.s, ret |-> FALSE]
                    ELSE [s |-> [r.s EXCEPT !.vector_store = r.ret,
                                            !.documents_processed = TRUE],
                          ret |-> TRUE]

process_video(s, uploaded_video, env) ==
    IF uploaded_video = None THEN [s |-> s, ret |-> FALSE]
    ELSE LET video_path == handle_file_upload(Val(uploaded_video), env)
             audio_path == extract_audio(video_path, env)
             transcription == transcribe_audio(Val(uploaded_video), env)
         IN IF video_path = None THEN [s |-> s, ret |-> FALSE]
            ELSE IF audio_path = None THEN [s |-> s, ret |-> FALSE]
            ELSE IF transcription = None \/ Val(transcription) = <<>>
                 THEN [s |-> s, ret |-> FALSE]
            ELSE LET s1 == [s EXCEPT !.content = @ \o Val(transcription) \o <<NL>>]
                     s2 == clear_old_index(s1)
                     text_chunks == get_text_chunks(s2.content)
                     r == get_vector_store(s2, text_chunks, env)
                 IN IF r.raised THEN [s |-> r.s, ret |-> FALSE]
                    ELSE [s |-> [r.s EXCEPT !.vector_store = r.ret,
                                            !.documents_processed = TRUE],
                          ret |-> TRUE]

\* process_audio that appends the transcription to content, as process_video does
process_audio_m(s, uploaded_audio, env) ==
    IF uploaded_audio = None THEN [s |-> s, ret |-> FALSE]
    ELSE LET audio_path == handle_file_upload(Val(uploaded_audio), env)
             transcription == transcribe_audio(Val(uploaded_audio), env)
         IN IF audio_path = None THEN [s |-> s, ret |-> FALSE]
            ELSE IF transcription = None \/ Val(transcription) = <<>>
                 THEN [s |-> s, ret |-> FALSE]
            ELSE LET s1 == clear_old_index(s)
                     text_chunks == split_text(Val(transcription))
                     built == FAISS_from_texts(text_chunks, TRUE, env)
                 IN IF built = None THEN [s |-> s1, ret |-> FALSE]
                    ELSE LET s2 == [s1 EXCEPT !.vector_store = built]
                             saved == save_local(s2, Val(built), env)
                         IN IF saved.raised THEN [s |-> saved.s, ret |-> FALSE]
                            ELSE [s |-> [saved.s EXCEPT
                                            !.documents_processed = TRUE,
                                            !.content = @ \o Val(transcription)],
                                  ret |-> TRUE]

process_audio(s, uploaded_audio, env) ==
    IF uploaded_audio = None THEN [s |-> s, ret |-> FALSE]
    ELSE LET audio_path == handle_file_upload(Val(uploaded_audio), env)
             transcription == transcribe_audio(Val(uploaded_audio), env)
         IN IF audio_path = None THEN [s |-> s, ret |-> FALSE]
            ELSE IF transcription = None \/ Val(transcription) = <<>>
                 THEN [s |-> s, ret |-> FALSE]
            ELSE LET s1 == clear_old_index(s)
                     text_chunks == split_text(Val(transcription))
                     built == FAISS_from_texts(text_chunks, TRUE, env)
                 IN IF built = None THEN [s |-> s1, ret |-> FALSE]
                    ELSE LET s2 == [s1 EXCEPT !.vector_store = built]
                             saved == save_local(s2, Val(built), env)
                         IN IF saved.raised THEN [s |-> saved.s, ret |-> FALSE]
                            ELSE [s |-> [saved.s EXCEPT
                                            !.documents_processed = TRUE,
                                            !.content = Val(transcription)],
                                  ret |-> TRUE]


(***************************************************************************)
(* Retrieval and answering (sections 6 and 7).                             *)
(***************************************************************************)
\* vector_store.similarity_search(query): the nearest chunks of the store
\* (all of them: a store of the model holds fewer than k = 4), or None for
\* the exception of a failing embedding call
similarity_search(store, query, env) ==
    IF env.chat = "search" THEN None ELSE Some(store.texts)

\* retrieve_documents that does not keep the loaded store in the session
retrieve_documents_m(s, query, env) ==
    LET held == s.vector_store # None
        loaded == load_vector_store(s, env)
        store == IF held THEN s.vector_store ELSE loaded.ret
        s1 == IF ~held /\ loaded.ret # None
              THEN s ELSE s
        s2 == [s1 EXCEPT !.log.query = Some(query),
                         !.log.held = held,
                         !.log.load_called = ~held,
                         !.log.disk_read = ~held /\ loaded.read,
                         !.log.load_failed = ~held /\ loaded.raised]
        found == similarity_search(Val(store), query, env)
        s3 == [s2 EXCEPT !.log.searched = store, !.log.search_failed = (found = None)]
        empty(z) == [s |-> [z EXCEPT !.log.retrieved = Some(<<>>)],
                     ret |-> <<>>, raised |-> FALSE]
    IN IF ~held /\ loaded.raised THEN empty(s2)
       ELSE IF store = None THEN empty(s2)
       ELSE IF found = None THEN empty(s3)
       ELSE [s |-> [s3 EXCEPT !.log.retrieved = found],
             ret |-> Val(found), raised |-> FALSE]

retrieve_documents(s, query, env) ==
    LET held == s.vector_store # None
        loaded == load_vector_store(s, env)
        store == IF held THEN s.vector_store ELSE loaded.ret
        s1 == IF ~held /\ loaded.ret # None
              THEN [s EXCEPT !.vector_store = loaded.ret] ELSE s
        s2 == [s1 EXCEPT !.log.query = Some(query),
                         !.log.held = held,
                         !.log.load_called = ~held,
                         !.log.disk_read = ~held /\ loaded.read,
                         !.log.load_failed = ~held /\ loaded.raised]
        found == similarity_search(Val(store), query, env)
        s3 == [s2 EXCEPT !.log.searched = store, !.log.search_failed = (found = None)]
        empty(z) == [s |-> [z EXCEPT !.log.retrieved = Some(<<>>)],
                     ret |-> <<>>, raised |-> FALSE]
    IN IF ~held /\ loaded.raised THEN empty(s2)
       ELSE IF store = None THEN empty(s2)
       ELSE IF found = None THEN empty(s3)
       ELSE [s |-> [s3 EXCEPT !.log.retrieved = found],
             ret |-> Val(found), raised |-> FALSE]

\* process_question without the check for an empty retrieval
process_question_m(s, question, docs, env) ==
    IF FALSE THEN [s |-> s, ret |-> NO_DOCS, raised |-> FALSE]
    ELSE LET s1 == [s EXCEPT !.log.chain_question = Some(question)]
         IN IF env.chat = "chain" THEN [s |-> s1, ret |-> NO_DOCS, raised |-> TRUE]
            ELSE [s |-> s1, ret |-> LLM_TEXT, raised |-> FALSE]

\* the answer, or raised when the Gemini chain fails
process_question(s, question, docs, env) ==
    IF docs = <<>> THEN [s |-> s, ret |-> NO_DOCS, raised |-> FALSE]
    ELSE LET s1 == [s EXCEPT !.log.chain_question = Some(question)]
         IN IF env.chat = "chain" THEN [s |-> s1, ret |-> NO_DOCS, raised |-> TRUE]
            ELSE [s |-> s1, ret |-> LLM_TEXT, raised |-> FALSE]

RECURSIVE StripNonEmpty(_)
\* [term.strip() for term in terms if term.strip()]
StripNonEmpty(terms) ==
    IF terms = <<>> THEN <<>>
    ELSE (IF Strip(Head(terms)) = <<>> THEN <<>> ELSE <<Strip(Head(terms))>>)
         \o StripNonEmpty(Tail(terms))

\* the cleaned related terms, "" when the Cohere call fails
fetch_related_terms(query, env) ==
    IF env.chat = "related" THEN <<>>
    ELSE JoinCommaSpace(StripNonEmpty(SplitComma(Strip(env.raw))))

\* retrieve_documents, then process_question unless the retrieval raised
answer_from(s, question, query, env) ==
    LET r == retrieve_documents(s, query, env)
    IN IF r.raised THEN [s |-> r.s, ret |-> NO_DOCS, raised |-> TRUE]
       ELSE process_question(r.s, question, r.ret, env)

\* process_input with the comparison "<= 15"
process_input_m(s, question, env) ==
    IF NumWords(question) <= ShortQueryWords
    THEN LET related_terms == fetch_related_terms(question, env)
             combined_query == IF related_terms # <<>>
                               THEN question \o <<SPACE>> \o related_terms
                               ELSE question
             s1 == [s EXCEPT !.log.related_called = TRUE,
                             !.log.related_failed = (env.chat = "related"),
                             !.log.related_terms = related_terms]
         IN answer_from(s1, question, combined_query, env)
    ELSE answer_from(s, question, question, env)

process_input(s, question, env) ==
    IF NumWords(question) < ShortQueryWords
    THEN LET related_terms == fetch_related_terms(question, env)
             combined_query == IF related_terms # <<>>
                               THEN question \o <<SPACE>> \o related_terms
                               ELSE question
             s1 == [s EXCEPT !.log.related_called = TRUE,
                             !.log.related_failed = (env.chat = "related"),
                             !.log.related_terms = related_terms]
         IN answer_from(s1, question, combined_query, env)
    ELSE answer_from(s, question, question, env)

\* response.text, or the "Error processing image: ..." text: never raises
get_gemini_response(s, question, image) ==
    [s |-> [s EXCEPT !.log.gemini_question = Some(question)], ret |-> LLM_TEXT]

(***************************************************************************)
(* handle_submit, the callback of the question box and of the Send button. *)
(***************************************************************************)
\* handle_submit without the check that something was uploaded
handle_submit_m(s) ==
    IF s.user_input # <<>> /\ Strip(s.user_input) # <<>>
    THEN IF FALSE
         THEN s
         ELSE [s EXCEPT !.current_question = Some(s.user_input),
                        !.processing = TRUE,
                        !.user_input = <<>>]
    ELSE s

handle_submit(s) ==
    IF s.user_input # <<>> /\ Strip(s.user_input) # <<>>
    THEN IF ~(s.content # <<>> \/ s.uploaded_image # None)
         THEN s
         ELSE [s EXCEPT !.current_question = Some(s.user_input),
                        !.processing = TRUE,
                        !.user_input = <<>>]
    ELSE s


(***************************************************************************)
(* The script run (sections 10 to 13): the sidebar, then the chat.         *)
(***************************************************************************)
\* get_pdf_text / get_ppt_content: the text, or None for the parser's exception
get_pdf_text(file, env) == IF env.side = "extract" THEN None ELSE Some(file)
get_ppt_content(file, env) == IF env.side = "extract" THEN None ELSE Some(file)
\* load_excel_and_convert_to_csv catches the exception and returns its message
load_excel_and_convert_to_csv(file, env) ==
    IF env.side = "extract" THEN Some(ExcelError) ELSE Some(file)

extract_text(ft, file, env) ==
    IF ft = "PDF" THEN get_pdf_text(file, env)
    ELSE IF ft = "PPT" THEN get_ppt_content(file, env)
    ELSE load_excel_and_convert_to_csv(file, env)

RECURSIVE combine(_, _, _)
\* the loop over uploaded_files: combined_content, or None when a file raises
combine(ft, files, env) ==
    IF files = <<>> THEN Some(<<>>)
    ELSE LET text == extract_text(ft, Head(files), env)
             rest == combine(ft, Tail(files), env)
         IN IF text = None \/ rest = None THEN None
            ELSE Some(Val(text) \o <<NL>> \o Val(rest))

\* "Process any uploaded PDF/PPT/Excel files"
process_documents(s, ft, uploaded_files, env) ==
    IF ~(ft # "Image" /\ uploaded_files # None /\ Val(uploaded_files) # <<>>)
    THEN s
    ELSE IF s.documents_processed THEN [s EXCEPT !.log.docs = "skipped"]
    ELSE LET s1 == clear_old_index(s)
             combined_content == combine(ft, Val(uploaded_files), env)
         IN IF combined_content = None
            THEN [s1 EXCEPT !.log.docs = "raised", !.log.raised = TRUE]
            ELSE LET s2 == [s1 EXCEPT !.content = Val(combined_content)]
                     text_chunks == get_text_chunks(Val(combined_content))
                     r == get_vector_store(s2, text_chunks, env)
                 IN IF r.raised
                    THEN [r.s EXCEPT !.log.docs = "raised", !.log.raised = TRUE]
                    ELSE [r.s EXCEPT !.vector_store = r.ret,
                                     !.documents_processed = TRUE,
                                     !.log.docs =
                                        IF ft = "Excel" /\ env.side = "extract"
                                        THEN "done_with_error" ELSE "done"]

Sidebar(s, ft, up, env) ==
    LET uploaded_files == IF ft \in DocTypes THEN Some(up) ELSE None
        uploaded_audio == IF ft = "Audio" /\ up # <<>> THEN Some(up[1]) ELSE None
        uploaded_video == IF ft = "Video" /\ up # <<>> THEN Some(up[1]) ELSE None
        uploaded_file == IF ft = "Image" /\ up # <<>> THEN Some(up[1]) ELSE None
        s1 ==
          IF ft = "Audio" /\ uploaded_audio # None /\ ~s.audio_processed
          THEN LET r == process_audio(s, uploaded_audio, env)
               IN [r.s EXCEPT !.audio_processed = IF r.ret THEN TRUE ELSE @,
                              !.log.media = "audio", !.log.media_ret = r.ret,
                              !.log.media_before = s.content,
                              !.log.media_text = uploaded_audio,
                              !.log.media_fail = env.side]
          ELSE IF ft = "Video" /\ uploaded_video # None /\ ~s.video_processed
          THEN LET r == process_video(s, uploaded_video, env)
               IN [r.s EXCEPT !.video_processed = IF r.ret THEN TRUE ELSE @,
                              !.log.media = "video", !.log.media_ret = r.ret,
                              !.log.media_before = s.content,
                              !.log.media_text = uploaded_video,
                              !.log.media_fail = env.side]
          ELSE IF ft = "Image" /\ uploaded_file # None
          THEN IF env.side = "image_open" THEN [s EXCEPT !.log.raised = TRUE]
               ELSE [s EXCEPT !.uploaded_image = Some(IMAGE)]
          ELSE s
    IN IF s1.log.raised THEN s1 ELSE process_documents(s1, ft, uploaded_files, env)

\* the chat logic without "processing = False"
Chat_m(s, env) ==
    IF s.processing /\ s.current_question # None /\ Val(s.current_question) # <<>>
    THEN LET question == Val(s.current_question)
             r == IF s.uploaded_image # None
                  THEN LET g == get_gemini_response(s, question, Val(s.uploaded_image))
                       IN [s |-> g.s, ret |-> g.ret, raised |-> FALSE]
                  ELSE process_input(s, question, env)
         IN IF r.raised THEN [r.s EXCEPT !.log.raised = TRUE]
            ELSE [r.s EXCEPT
                    !.conversation_history = Append(@, <<question, r.ret>>),
                    !.current_question = None,
                    !.log.response = Some(r.ret),
                    !.log.answered = TRUE]
    ELSE s

\* "Chat Display and Logic": answers the pending question and asks for a rerun
Chat(s, env) ==
    IF s.processing /\ s.current_question # None /\ Val(s.current_question) # <<>>
    THEN LET question == Val(s.current_question)
             r == IF s.uploaded_image # None
                  THEN LET g == get_gemini_response(s, question, Val(s.uploaded_image))
                       IN [s |-> g.s, ret |-> g.ret, raised |-> FALSE]
                  ELSE process_input(s, question, env)
         IN IF r.raised THEN [r.s EXCEPT !.log.raised = TRUE]
            ELSE [r.s EXCEPT
                    !.conversation_history = Append(@, <<question, r.ret>>),
                    !.processing = FALSE,
                    !.current_question = None,
                    !.log.response = Some(r.ret),
                    !.log.answered = TRUE]
    ELSE s

\* one run of the script from top to bottom; an uncaught exception ends it
script(s, ft, up, env) ==
    LET s1 == Sidebar(s, ft, up, env)
    IN IF s1.log.raised THEN s1 ELSE Chat(s1, env)


(***************************************************************************)
(* Actions.  A user event on a widget of the sidebar makes Streamlit run   *)
(* the script; an event on the question box or the Send button makes it    *)
(* call handle_submit and then run the script.                             *)
(***************************************************************************)
NoEnv == [side |-> "none", chat |-> "none", raw |-> <<>>]

FileLists == UNION {[1..n -> FileTexts] : n \in 1..MaxFiles}

\* the external steps that the sidebar reaches with these widgets
SideFailsOf(ft, up) ==
    IF up = <<>> THEN {"none"}
    ELSE IF ft = "Audio" /\ ~audio_processed
         THEN {"none", "save_file", "transcribe", "embed", "save_local"}
    ELSE IF ft = "Video" /\ ~video_processed
         THEN {"none", "save_file", "extract_audio", "transcribe", "embed", "save_local"}
    ELSE IF ft = "Image" THEN {"none", "image_open"}
    ELSE IF ft \in DocTypes /\ ~documents_processed
         THEN {"none", "extract", "embed", "save_local"}
    ELSE {"none"}

\* the outcomes that can differ in a run with these widgets: a step that the
\* run does not reach cannot fail
RunEnvs(ft, up) ==
    {e \in Envs : /\ e.side \in SideFailsOf(ft, up)
                  /\ ~processing => (e.chat = "none" /\ e.raw = <<>>)}

\* the variables after a run that ends in state s
RunTo(s) ==
    /\ Len(s.content) > Len(content) => Len(s.content) <= MaxContentLen
    /\ content' = s.content
    /\ vector_store' = s.vector_store
    /\ documents_processed' = s.documents_processed
    /\ audio_processed' = s.audio_processed
    /\ video_processed' = s.video_processed
    /\ processing' = s.processing
    /\ current_question' = s.current_question
    /\ user_input' = s.user_input
    /\ conversation_history' = s.conversation_history
    /\ uploaded_image' = s.uploaded_image
    /\ vector_store_index' = s.index
    /\ log' = s.log
    /\ phase' = IF s.log.answered THEN "run" ELSE "idle"
    /\ UNCHANGED chunkVars

\* the user picks another entry of "Select file type": the uploader shown is new
SelectFileType(t) ==
    /\ phase = "idle"
    /\ t # file_type
    /\ file_type' = t
    /\ uploader' = <<>>
    /\ \E env \in RunEnvs(t, <<>>) : RunTo(script(State, t, <<>>, env))

\* the user puts files in the uploader shown
Upload(files) ==
    /\ phase = "idle"
    /\ files # uploader
    /\ IF file_type \in DocTypes THEN TRUE
       ELSE IF file_type = "Image" THEN files = << <<>> >>
       ELSE Len(files) = 1
    /\ uploader' = files
    /\ \E env \in RunEnvs(file_type, files) :
          RunTo(script(State, file_type, files, env))
    /\ UNCHANGED file_type

\* the callback on the question box holding text; the script run is then due
Callback(text) ==
    LET s == handle_submit([State EXCEPT !.user_input = text])
    IN /\ current_question' = s.current_question
       /\ processing' = s.processing
       /\ user_input' = s.user_input
       /\ content' = s.content
       /\ conversation_history' = s.conversation_history
       /\ uploaded_image' = s.uploaded_image
       /\ log' = [EmptyLog EXCEPT !.submitted = Some(text)]
       /\ phase' = "run"
       /\ UNCHANGED <<vector_store, documents_processed, audio_processed,
                      video_processed, file_type, uploader, vector_store_index>>
       /\ UNCHANGED chunkVars

\* the user types text in the question box and presses Enter (on_change)
TypeQuestion(text) ==
    /\ phase = "idle"
    /\ Len(conversation_history) < MaxHistory
    /\ text # user_input
    /\ Callback(text)

\* the user clicks Send (on_click)
ClickSend ==
    /\ phase = "idle"
    /\ Len(conversation_history) < MaxHistory
    /\ Callback(user_input)

\* the run that follows a callback or st.rerun()
ScriptRun ==
    /\ phase = "run"
    /\ \E env \in RunEnvs(file_type, uploader) :
          RunTo(script(State, file_type, uploader, env))
    /\ UNCHANGED <<file_type, uploader>>

\* between two events of this session, another session of the server processes
\* an upload of its own: it clears the shared index folder and saves the index
\* of its own text there
OtherSessionUpload ==
    /\ phase = "idle"
    /\ LET s1 == clear_old_index(State)
           r == get_vector_store(s1, get_text_chunks(OtherText), NoEnv)
       IN vector_store_index' = r.s.index
    /\ vector_store_index' # vector_store_index
    /\ UNCHANGED <<content, vector_store, documents_processed, audio_processed,
                   video_processed, processing, current_question, user_input,
                   conversation_history, uploaded_image, file_type, uploader,
                   phase, log>>
    /\ UNCHANGED chunkVars

Next ==
    \/ \E t \in FileTypes : SelectFileType(t)
    \/ \E files \in FileLists : Upload(files)
    \/ \E text \in UserInputs : TypeQuestion(text)
    \/ ClickSend
    \/ ScriptRun
    \/ OtherSessionUpload

Spec == Init /\ [][Next]_vars

\* the uploads alone: nobody asks a question
NextUpload ==
    \/ \E t \in FileTypes : SelectFileType(t)
    \/ \E files \in FileLists : Upload(files)
    \/ ScriptRun
    \/ OtherSessionUpload

SpecUpload == Init /\ [][NextUpload]_vars

\* the uploads of one session that has the server, and so the vector_store_index
\* folder, to itself
NextSession ==
    \/ \E t \in FileTypes : SelectFileType(t)
    \/ \E files \in FileLists : Upload(files)
    \/ ScriptRun

SpecSession == Init /\ [][NextSession]_vars

\* the chat, over the uploads that decide what a question meets: documents
\* (indexed or not), an image, an index left on disk by another session
ChatFileTypes == {"PDF", "Image"}
ChatUploads == {<<text>> : text \in FileTexts}

NextChat ==
    \/ \E t \in ChatFileTypes : SelectFileType(t)
    \/ \E files \in ChatUploads : Upload(files)
    \/ \E text \in UserInputs : TypeQuestion(text)
    \/ ClickSend
    \/ ScriptRun
    \/ OtherSessionUpload

SpecChat == Init /\ [][NextChat]_vars


(***************************************************************************)
(* get_late_chunked_text, statement by statement.  A retrieved document is *)
(* its page_content: the three branches of the loop body (a Document, a    *)
(* dict with "page_content", anything else through str) all clean that     *)
(* text.                                                                   *)
(***************************************************************************)
ChunkChars == {"a", SPACE, ASTRAL}
ChunkTexts == UNION {[1..n -> ChunkChars] : n \in 0..MaxTextLen}
DocLists == UNION {[1..n -> ChunkTexts] : n \in 0..MaxDocs}

\* text[lo : hi] of Python, for 0 <= lo
Slice(s, lo, hi) == SubSeq(s, lo + 1, IF hi < Len(s) THEN hi ELSE Len(s))

\* the call get_late_chunked_text(docs, chunk_size, chunk_overlap)
ChunkInit ==
    /\ SessionInit
    /\ retrieved_docs \in DocLists
    /\ chunk_size \in 1..MaxChunkSize
    /\ chunk_overlap \in 0..(chunk_size - 1)
    /\ doc_index = 1
    /\ doc_text = <<>>
    /\ start = 0
    /\ chunked_docs = <<>>
    /\ pc = "for"

\* for doc in retrieved_docs: text = clean_text(...) (doc_text here); start = 0
ForDoc ==
    /\ pc = "for"
    /\ IF doc_index <= Len(retrieved_docs)
       THEN /\ doc_text' = clean_text(retrieved_docs[doc_index])
            /\ start' = 0
            /\ pc' = "while"
            /\ UNCHANGED <<doc_index, chunked_docs>>
       ELSE /\ pc' = "done"
            /\ UNCHANGED <<doc_index, doc_text, start, chunked_docs>>
    /\ UNCHANGED <<retrieved_docs, chunk_size, chunk_overlap>>
    /\ UNCHANGED sessionVars

\* the window advancing by chunk_size, without the overlap
next_start_m(s, size, overlap) == s + size

\* the step of the window
next_start(s, size, overlap) == s + size - overlap

\* while start < len(text): append text[start : start + chunk_size]; advance
WhileChunk ==
    /\ pc = "while"
    /\ IF start < Len(doc_text)
       THEN /\ chunked_docs' = Append(chunked_docs, Slice(doc_text, start, start + chunk_size))
            /\ start' = next_start(start, chunk_size, chunk_overlap)
            /\ UNCHANGED <<doc_index, pc>>
       ELSE /\ doc_index' = doc_index + 1
            /\ pc' = "for"
            /\ UNCHANGED <<start, chunked_docs>>
    /\ UNCHANGED <<retrieved_docs, chunk_size, chunk_overlap, doc_text>>
    /\ UNCHANGED sessionVars

NextChunk == ForDoc \/ WhileChunk

\* the interpreter keeps executing the call
SpecChunk == ChunkInit /\ [][NextChunk]_vars /\ WF_vars(NextChunk)


(***************************************************************************)
(* Properties.                                                             *)
(***************************************************************************)
\* this step is a run of the script (an event on the sidebar, or the run due
\* after a callback or st.rerun())
IsRun == phase = "run" \/ file_type' # file_type \/ uploader' # uploader

\* this step is a call of handle_submit
IsCallback == phase = "idle" /\ phase' = "run" /\ log'.submitted # None

\* C1: process_input expands only short queries.  In a run that reaches
\* retrieve_documents for the question q: when q has fewer than 15 words the
\* related-terms service is called and the query is q, a space and the related
\* terms when these are not empty, q alone when they are empty (they are empty
\* when the service fails); when q has 15 words or more the service is not
\* called and the query is q; the chain, when invoked, is given q.
C1_QueryExpansion ==
    [][(IsRun /\ log'.query # None) =>
         LET q == Val(current_question)
         IN /\ NumWords(q) < 15 =>
                 /\ log'.related_called
                 /\ log'.related_failed => log'.related_terms = <<>>
                 /\ log'.query = Some(IF log'.related_terms # <<>>
                                      THEN q \o <<" ">> \o log'.related_terms
                                      ELSE q)
            /\ NumWords(q) >= 15 => (~log'.related_called /\ log'.query = Some(q))
            /\ log'.chain_question \in {None, Some(q)}
            /\ log'.gemini_question = None]_vars

\* C1 witness: a 14-word question was expanded with the terms "t, t" and the
\* chain answered the question itself
C1_Witness ==
    /\ log.related_called
    /\ log.related_terms = <<"t", ",", " ", "t">>
    /\ log.query = Some(Words(14) \o <<" ", "t", ",", " ", "t">>)
    /\ log.chain_question = Some(Words(14))
    /\ log.answered

\* C2: handle_submit accepts a question only when documents or an image have
\* been uploaded.  Called on the text of the question box: if the text is empty
\* or whitespace-only, or content is empty and no image is held, processing,
\* current_question, user_input and conversation_history stay as they are;
\* otherwise current_question is the text, processing is True, user_input is "".
C2_HandleSubmit ==
    [][IsCallback =>
         LET submitted == Val(log'.submitted)
             blank == \A i \in 1..Len(submitted) : submitted[i] \in {" ", "\n"}
         IN IF blank \/ (content = <<>> /\ uploaded_image = None)
            THEN /\ processing' = processing
                 /\ current_question' = current_question
                 /\ user_input' = submitted
                 /\ conversation_history' = conversation_history
            ELSE /\ current_question' = Some(submitted)
                 /\ processing' = TRUE
                 /\ user_input' = <<>>]_vars

\* C2 witness: a question was accepted over uploaded content
C2_Witness ==
    /\ phase = "run"
    /\ log.submitted = Some(Words(14))
    /\ current_question = log.submitted
    /\ processing
    /\ user_input = <<>>
    /\ content # <<>>
    /\ uploaded_image = None

\* C3: with no vector store available (none in the session, no index folder on
\* disk), and also when loading the index or the similarity search fails,
\* retrieve_documents returns the empty list and raises nothing, and
\* process_input returns the fixed message without invoking the chain.
C3_NoStore ==
    (/\ log.query # None
     /\ \/ (~log.held /\ ~log.disk_read)
        \/ log.load_failed
        \/ log.search_failed)
    => /\ log.retrieved = Some(<<>>)
       /\ ~log.raised
       /\ log.chain_question = None
       /\ log.response = Some(NO_DOCS)
       /\ log.answered

\* C3 witness: a question met no store and no index and got the fixed message
C3_Witness ==
    /\ log.query # None
    /\ ~log.held
    /\ log.load_called
    /\ ~log.disk_read
    /\ log.response = Some(NO_DOCS)
    /\ vector_store = None
    /\ vector_store_index = None


\* C5: every accepted question is answered exactly once.  A run that starts
\* with processing True and a current_question, and that no exception ends,
\* appends exactly the pair (current_question, response) to the end of
\* conversation_history, leaving the entries before it as they were, and ends
\* with processing False and current_question None; a run that starts with
\* processing False leaves the history as it is.
C5_AnsweredOnce ==
    [][IsRun =>
         /\ (processing /\ current_question # None /\ ~log'.raised) =>
               /\ log'.response # None
               /\ conversation_history' =
                     conversation_history
                        \o << <<Val(current_question), Val(log'.response)>> >>
               /\ processing' = FALSE
               /\ current_question' = None
         /\ ~processing => conversation_history' = conversation_history]_vars

\* C5 witness: a second question was answered after a first one
C5_Witness ==
    /\ log.answered
    /\ Len(conversation_history) = 2
    /\ conversation_history[2] = <<Words(14), Val(log.response)>>
    /\ conversation_history[1][1] # Words(14)
    /\ ~processing
    /\ current_question = None

\* C9: retrieve_documents prefers the store of the session.  When the session
\* holds a store at the call, that store is the one searched and nothing is
\* loaded from disk; when it holds none and loading vector_store_index
\* succeeds, the loaded store is searched and kept in the session; a session
\* that holds a store at the start of a run holds one at the call, and no step
\* sets the store of the session back to None.
C9_SessionStoreFirst ==
    [][/\ vector_store # None => vector_store' # None
       /\ (IsRun /\ log'.query # None) =>
            /\ vector_store # None => log'.held
            /\ log'.held =>
                 /\ ~log'.load_called
                 /\ ~log'.disk_read
                 /\ log'.searched = vector_store'
            /\ ~log'.held => log'.load_called
            /\ (~log'.held /\ log'.disk_read /\ ~log'.load_failed) =>
                 /\ vector_store' # None
                 /\ vector_store' = vector_store_index'
                 /\ log'.searched = vector_store']_vars

\* C9 witness: the session held no store, loaded the index another session had
\* saved and keeps it
C9_Witness ==
    /\ log.query # None
    /\ ~log.held
    /\ log.disk_read
    /\ ~log.load_failed
    /\ vector_store # None
    /\ vector_store = vector_store_index
    /\ log.retrieved = Some(Val(vector_store).texts)


RECURSIVE JoinLines(_)
\* each text followed by a newline
JoinLines(texts) ==
    IF texts = <<>> THEN <<>> ELSE Head(texts) \o <<"\n">> \o JoinLines(Tail(texts))

\* the index get_vector_store builds from a content
IndexOf(c) == Some([texts |-> MapClean(get_text_chunks(c)), normalize_L2 |-> FALSE])

\* C4: any uploaded PDF, PPT or Excel files are processed.  In every run in
\* which the uploader of one of these types holds files with some text, which
\* no exception ends and in which every file can be read, session content
\* becomes the texts of exactly these files, each followed by a newline, and
\* the store of the session and the index on disk are rebuilt from that
\* content, whatever was uploaded or processed before.
C4_DocumentsProcessed ==
    [][(/\ IsRun
        /\ file_type' \in DocTypes
        /\ uploader' # <<>>
        /\ Strip(JoinLines(uploader')) # <<>>
        /\ ~log'.raised
        /\ log'.docs # "done_with_error") =>
         /\ log'.docs = "done"
         /\ content' = JoinLines(uploader')
         /\ vector_store' = IndexOf(content')
         /\ vector_store_index' = vector_store']_vars

\* C6: a successful process_audio replaces the knowledge of the session.
\* After a run in which it returned True, content is exactly the transcription
\* of the file, the store of the session holds the chunks of the transcription
\* and nothing else, that store is saved in vector_store_index, and
\* documents_processed is True.
C6_AudioReplaces ==
    [][(IsRun /\ log'.media = "audio" /\ log'.media_ret) =>
         LET transcription == Val(log'.media_text)
         IN /\ uploader' = <<transcription>>
            /\ content' = transcription
            /\ vector_store' = Some([texts |-> <<Strip(transcription)>>,
                                     normalize_L2 |-> TRUE])
            /\ vector_store_index' = vector_store'
            /\ documents_processed'
            /\ audio_processed']_vars

\* C6 witness: an audio file was processed over the content of a document,
\* which is gone
C6_Witness ==
    /\ log.media = "audio"
    /\ log.media_ret
    /\ log.media_before = <<"a", "\n">>
    /\ content = <<"a">>
    /\ Val(vector_store).texts = <<content>>
    /\ vector_store_index = vector_store

\* C7: a successful process_video extends the knowledge of the session.  After
\* a run in which it returned True, content is the content before the call,
\* the transcription and a newline, the store of the session is built from the
\* chunks of that whole content, and documents_processed is True.
C7_VideoExtends ==
    [][(IsRun /\ log'.media = "video" /\ log'.media_ret) =>
         LET transcription == Val(log'.media_text)
         IN /\ uploader' = <<transcription>>
            /\ log'.media_before = content
            /\ content' = content \o transcription \o <<"\n">>
            /\ vector_store' = IndexOf(content')
            /\ documents_processed'
            /\ video_processed']_vars

\* C7 witness: a video was processed over the transcription of an audio file;
\* the store holds the chunk of both texts, not of the video alone
C7_Witness ==
    /\ log.media = "video"
    /\ log.media_ret
    /\ log.media_before = <<"a">>
    /\ content = <<"a", "a", "\n">>
    /\ Val(vector_store).texts = << <<"a", "a">> >>

\* the transcription of the last media call was obtained: the file was saved,
\* the audio extracted, Whisper returned a text that is not empty
Transcribed(l) ==
    /\ l.media_fail \notin {"save_file", "extract_audio", "transcribe"}
    /\ Val(l.media_text) # <<>>

\* C8: process_video and process_audio raise nothing and return a boolean:
\* False when saving the file fails, when the audio extraction fails, when the
\* transcription is None or empty, or when embedding or saving the index
\* raises; True only when a transcription was obtained and the store of the
\* session was rebuilt from it.  audio_processed and video_processed become
\* True only in a run where the call returned True.
C8_MediaOutcome ==
    [][/\ (audio_processed' /\ ~audio_processed) =>
             (IsRun /\ log'.media = "audio" /\ log'.media_ret)
       /\ (video_processed' /\ ~video_processed) =>
             (IsRun /\ log'.media = "video" /\ log'.media_ret)
       /\ (IsRun /\ log'.media # "none") =>
            /\ ~log'.raised
            /\ log'.media_ret \in BOOLEAN
            /\ (~Transcribed(log') \/ log'.media_fail \in {"embed", "save_local"})
                  => ~log'.media_ret
            /\ log'.media_ret =>
                 /\ Transcribed(log')
                 /\ vector_store' # None
                 /\ Val(vector_store').texts = <<Strip(content')>>
                 /\ vector_store_index' = vector_store']_vars

\* C8 witness: a video whose index could not be saved returned False and the
\* flag stayed False
C8_Witness ==
    /\ log.media = "video"
    /\ log.media_fail = "save_local"
    /\ ~log.media_ret
    /\ ~video_processed
    /\ Val(log.media_text) # <<>>

\* the store was built from exactly the text c: by get_vector_store (documents,
\* video) or by process_audio
BuiltFrom(store, c) ==
    \/ store = IndexOf(c)
    \/ store = Some([texts |-> split_text(c), normalize_L2 |-> TRUE])

\* C11: the index always matches the content.  After every step of a session
\* that is alone on the server, a store held by the session was built from
\* exactly the text in session content, and the vector_store_index folder, when
\* it exists, holds that same store; and a run in which process_video or
\* process_audio returned False leaves content, the store of the session and
\* the folder as they were.
C11_IndexMatchesContent ==
    [][/\ vector_store' # None => BuiltFrom(vector_store', content')
       /\ (vector_store' # None /\ vector_store_index' # None) =>
             vector_store_index' = vector_store'
       /\ (log'.media # "none" /\ ~log'.media_ret) =>
             /\ content' = content
             /\ vector_store' = vector_store
             /\ vector_store_index' = vector_store_index]_vars

\* the passages of the index that another session saves in the shared folder
OtherPassages ==
    LET other == IndexOf(OtherText)
    IN {Val(other).texts[i] : i \in DOMAIN Val(other).texts}

\* C12: sessions are isolated from each other although they share the
\* vector_store_index folder.  Whatever the interleaving of this session's
\* uploads and questions with the uploads of another session, the store this
\* session holds or searches is never the index another session saved, and no
\* passage retrieved for a question of this session comes from that index.
C12_SessionsIsolated ==
    /\ vector_store # IndexOf(OtherText)
    /\ log.searched # IndexOf(OtherText)
    /\ log.retrieved # None =>
          \A i \in DOMAIN Val(log.retrieved) : Val(log.retrieved)[i] \notin OtherPassages


(***************************************************************************)
(* Properties of get_late_chunked_text.                                    *)
(***************************************************************************)
step == chunk_size - chunk_overlap

\* ceil(n / d)
CeilDiv(n, d) == (n + d - 1) \div d

Min(a, b) == IF a < b THEN a ELSE b

\* the windows of a cleaned text T: the k-th (from 0) starts at k * step and
\* holds chunk_size characters, or what is left of T
Windows(T) ==
    [k \in 1..CeilDiv(Len(T), step) |->
        SubSeq(T, (k - 1) * step + 1, Min((k - 1) * step + chunk_size, Len(T)))]

RECURSIVE AllWindows(_)
AllWindows(docs) ==
    IF docs = <<>> THEN <<>>
    ELSE Windows(clean_text(Head(docs))) \o AllWindows(Tail(docs))

\* the characters that the windows k and k + 1 (from 0) of a text of length L
\* have in common, the window k being c
Shared(c, k) == IF Len(c) > step THEN Len(c) - step ELSE 0

\* the result is, document by document, the windows of the cleaned text:
\* ceil(L / step) chunks, none for an empty text, each non-empty and at most
\* chunk_size long, covering the text in order
ChunksAreWindows ==
    /\ chunked_docs = AllWindows(retrieved_docs)
    /\ \A i \in 1..Len(chunked_docs) :
          Len(chunked_docs[i]) \in 1..chunk_size
    /\ \A d \in 1..Len(retrieved_docs) :
          LET T == clean_text(retrieved_docs[d])
              W == Windows(T)
          IN /\ Len(W) = CeilDiv(Len(T), step)
             /\ T = <<>> => W = <<>>
             /\ \A p \in 1..Len(T) :
                   \E k \in 1..Len(W) :
                      /\ (k - 1) * step < p
                      /\ p <= (k - 1) * step + Len(W[k])
                      /\ W[k][p - (k - 1) * step] = T[p]

\* C10 as claimed: ..., and any two consecutive chunks of a document share
\* chunk_overlap characters.
C10_AsClaimed ==
    pc = "done" =>
       /\ ChunksAreWindows
       /\ \A d \in 1..Len(retrieved_docs) :
             LET W == Windows(clean_text(retrieved_docs[d]))
             IN \A k \in 1..(Len(W) - 1) : Shared(W[k], k - 1) = chunk_overlap

\* C10, amended: get_late_chunked_text terminates for every list and every
\* chunk_size > chunk_overlap >= 0; its result is, for each document of cleaned
\* length L, the ceil(L / step) windows of the text, the k-th starting at
\* k * step, each non-empty and at most chunk_size long, covering the text in
\* order, none for an empty text; the chunks k and k + 1 share
\* min(chunk_overlap, L - (k + 1) * step) characters, which is chunk_overlap
\* only while at least chunk_overlap characters follow the start of chunk k + 1.
C10_Windows ==
    /\ <>(pc = "done")
    /\ [](pc = "done" =>
            /\ ChunksAreWindows
            /\ \A d \in 1..Len(retrieved_docs) :
                  LET T == clean_text(retrieved_docs[d])
                      W == Windows(T)
                  IN \A k \in 1..(Len(W) - 1) :
                        Shared(W[k], k - 1) = Min(chunk_overlap, Len(T) - k * step))

\* C10 witness: a text of three characters cut with chunk_size 3 and
\* chunk_overlap 2 gave three chunks, the last two sharing one character
C10_Witness ==
    /\ pc = "done"
    /\ chunk_size = 3
    /\ chunk_overlap = 2
    /\ retrieved_docs = << <<"a", " ", "a">> >>
    /\ chunked_docs = << <<"a", " ", "a">>, <<" ", "a">>, <<"a">> >>

====
